---------------------------- MODULE Spec2Model ----------------------------
(***************************************************************************)
(* A model of src/bitbucket/pullRequestGitHelper.ts: PullRequestGitHelper, *)
(* the static helpers that map pull requests to local branches, remotes    *)
(* and per-branch config entries of a git repository.                      *)
(*                                                                         *)
(* A JavaScript string is a sequence of one-character strings, so that the *)
(* concatenations and the regular expressions of the source are computed   *)
(* character by character.  null / undefined is NULL.                      *)
(***************************************************************************)
EXTENDS Integers, Sequences, FiniteSets, TLC

VARIABLES
    branches,    \* local branches of the repository: name -> Branch
    remoteRefs,  \* remote-tracking refs of the repository: ref name -> commit
    remotes,     \* repository.remotes: a list of Remote
    configs,     \* the repository's config entries, in file order
    HEAD,        \* the checked-out local branch, or NULL
    pc,          \* where the running operation stands; "idle" between operations
    op,          \* the running (or last) operation and its arguments
    loc,         \* the running operation's local variables
    calls,       \* the mutating engine calls the running (or last) operation issued
    result,      \* how the last operation ended, and what it returned
    done,        \* the last two operations completed, the older first
    count,       \* the number of operations started
    failures,    \* the number of engine calls that failed
    value,       \* codec: the argument of parsePullRequestMetadata
    parsed,      \* codec: what parsePullRequestMetadata returned
    pullRequest, \* codec: the pull request given to buildPullRequestMetadata
    added        \* history: the names of the remotes that addRemote has added

vars == <<branches, remoteRefs, remotes, configs, HEAD, pc, op, loc, calls,
          result, done, count, failures, value, parsed, pullRequest, added>>

repoVars == <<branches, remoteRefs, remotes, configs, HEAD>>
runVars == <<pc, op, loc, calls, result, done, count, failures>>
codecVars == <<value, parsed, pullRequest>>

\* null / undefined where a string is expected: no string, as its one element
\* is not a character
NULL == <<"null">>
\* null / undefined where an object is expected
NONE == [none |-> TRUE]
\* an undefined number
UNDEFINED == [undefined |-> TRUE]

(***************************************************************************)
(* Bounds of the model.                                                    *)
(***************************************************************************)
\* the longest string given to parsePullRequestMetadata
MaxLen == 4
\* the longest owner / repository name of the codec's pull requests
MaxNameLen == 2
\* the largest pull request number of the codec's pull requests
MaxPrNumber == 12
\* the number of operations run on one repository
MaxOps == 2
\* the number of engine calls that fail in one run
MaxFailures == 1

(***************************************************************************)
(* Strings.                                                                *)
(***************************************************************************)
Max(S) == CHOOSE x \in S : \A y \in S : y <= x
Min(S) == CHOOSE x \in S : \A y \in S : x <= y

Digits == <<"0", "1", "2", "3", "4", "5", "6", "7", "8", "9">>

\* JavaScript's string + number, for a non-negative integer
RECURSIVE NumToStr(_)
NumToStr(n) ==
    IF n < 10 THEN <<Digits[n + 1]>>
    ELSE NumToStr(n \div 10) \o <<Digits[(n % 10) + 1]>>

\* a JavaScript number: a non-negative integer, or NaN
Num(n) == [nan |-> FALSE, val |-> n]
NaN == [nan |-> TRUE, val |-> 0]

DigitValue(c) == CHOOSE d \in 0..9 : Digits[d + 1] = c

RECURSIVE DecimalValue(_)
DecimalValue(s) ==
    IF s = <<>> THEN 0
    ELSE 10 * DecimalValue(SubSeq(s, 1, Len(s) - 1)) + DigitValue(s[Len(s)])

\* JavaScript's Number(string) on strings of letters, digits and '#':
\* 0 for the empty string, the value of a string of decimal digits, else NaN
StrToNum(s) ==
    IF \A i \in 1..Len(s) : \E d \in 1..10 : Digits[d] = s[i]
    THEN Num(DecimalValue(s))
    ELSE NaN

\* the characters that '.' of a regular expression does not match
LineTerminators == {"\n", "\r"}

StartsWith(s, p) == Len(s) >= Len(p) /\ SubSeq(s, 1, Len(p)) = p

\* the sequences over S of length at most n
SeqsUpTo(S, n) == UNION {[1..k -> S] : k \in 0..n}

(***************************************************************************)
(* The metadata codec.                                                     *)
(***************************************************************************)
\* buildPullRequestMetadata with the head's clone URL taken for the base's
buildPullRequestMetadata_OfHead(pr) ==
    pr.head.repositoryCloneUrl.owner \o <<"#">>
        \o pr.head.repositoryCloneUrl.repositoryName \o <<"#">>
        \o NumToStr(pr.prNumber)

\* buildPullRequestMetadata: owner + '#' + repositoryName + '#' + prNumber
buildPullRequestMetadata(pr) ==
    pr.base.repositoryCloneUrl.owner \o <<"#">>
        \o pr.base.repositoryCloneUrl.repositoryName \o <<"#">>
        \o NumToStr(pr.prNumber)

\* The match of /(.*)#(.*)#(.*)/s in v: '.' matches line terminators too
MetadataMatch_DotAll(v) ==
    LET Hashes == {k \in 1..Len(v) : v[k] = "#"}
    IN  IF Cardinality(Hashes) < 2 THEN <<>>
        ELSE <<1, Max(Hashes \ {Max(Hashes)}), Max(Hashes), Len(v)>>

\* The match of /(.*)#(.*)#(.*)/ in v, as <<start, first '#', second '#', end>>,
\* or <<>> without a match.  '.' matches no line terminator, so a match lies in
\* one line; exec returns the leftmost match, which starts where the first line
\* holding two '#' starts; each (.*) is greedy, so the separators are the last
\* two '#' of that line and the third group runs to the end of the line.
MetadataMatch(v) ==
    LET n == Len(v)
        IsLT(k) == v[k] \in LineTerminators
        LineStart(k) == Max({t \in 1..k : t = 1 \/ IsLT(t - 1)})
        LineEnd(k) == Min({t \in k..n : t = n \/ IsLT(t + 1)})
        Hashes == {k \in 1..n : v[k] = "#"}
        Starts == {LineStart(i) : i \in {k \in Hashes :
                        \E j \in Hashes : j > k /\ LineStart(j) = LineStart(k)}}
    IN  IF Starts = {} THEN <<>>
        ELSE LET s == Min(Starts)
                 H == {k \in Hashes : LineStart(k) = s}
                 j == Max(H)
                 i == Max(H \ {j})
             IN  <<s, i, j, LineEnd(j)>>

\* parsePullRequestMetadata: null for a falsy value or without a match
parsePullRequestMetadata(v) ==
    IF v = NULL \/ v = <<>> THEN NONE
    ELSE LET m == MetadataMatch(v)
         IN  IF m = <<>> THEN NONE
             ELSE [owner |-> SubSeq(v, m[1], m[2] - 1),
                   repositoryName |-> SubSeq(v, m[2] + 1, m[3] - 1),
                   prNumber |-> StrToNum(SubSeq(v, m[3] + 1, m[4]))]

(***************************************************************************)
(* String constants of the source and of git.                              *)
(***************************************************************************)
\* "github-pr-remote"
PullRequestRemoteMetadataKey ==
    <<"g", "i", "t", "h", "u", "b", "-", "p", "r", "-", "r", "e", "m",
      "o", "t", "e">>
\* "github-pr-owner-number"
PullRequestMetadataKey ==
    <<"g", "i", "t", "h", "u", "b", "-", "p", "r", "-", "o", "w", "n",
      "e", "r", "-", "n", "u", "m", "b", "e", "r">>
\* "pr/"
PrSlash == <<"p", "r", "/">>
\* "branch."
BranchDot == <<"b", "r", "a", "n", "c", "h", ".">>
\* "remote."
RemoteDot == <<"r", "e", "m", "o", "t", "e", ".">>
\* ".remote"
DotRemote == <<".", "r", "e", "m", "o", "t", "e">>
\* "refs/remotes/"
RefsRemotes ==
    <<"r", "e", "f", "s", "/", "r", "e", "m", "o", "t", "e", "s", "/">>
\* "true"
True == <<"t", "r", "u", "e">>
\* "origin"
Origin == <<"o", "r", "i", "g", "i", "n">>

\* `branch.${name}.github-pr-owner-number`
MetadataKeyOf(branchName) ==
    BranchDot \o branchName \o <<".">> \o PullRequestMetadataKey
\* `remote.${name}.github-pr-remote`
RemoteMetadataKeyOf(remoteName) ==
    RemoteDot \o remoteName \o <<".">> \o PullRequestRemoteMetadataKey
\* `branch.${name}.remote`
BranchRemoteKeyOf(branchName) == BranchDot \o branchName \o DotRemote
\* `refs/remotes/${remoteName}/${ref}`
TrackedBranchName(remoteName, ref) ==
    RefsRemotes \o remoteName \o <<"/">> \o ref

\* PullRequestBranchRegex.exec(key)[1], or NULL without a match: the leftmost
\* "branch." that a ".github-pr-owner-number" follows after one character or
\* more of the same line, and, (.+) being greedy, the last such suffix
PullRequestBranchRegex(key) ==
    LET n == Len(key)
        pre == BranchDot
        suf == <<".">> \o PullRequestMetadataKey
        IsAt(w, k) == k + Len(w) - 1 <= n /\ SubSeq(key, k, k + Len(w) - 1) = w
        Pre == {k \in 1..n : IsAt(pre, k)}
        Suf == {k \in 1..n : IsAt(suf, k)}
        Group(s, t) == SubSeq(key, s + Len(pre), t - 1)
        Fits(s, t) ==
            /\ t > s + Len(pre)
            /\ \A k \in 1..Len(Group(s, t)) :
                   Group(s, t)[k] \notin LineTerminators
        S == {s \in Pre : \E t \in Suf : Fits(s, t)}
    IN  IF S = {} THEN NULL
        ELSE LET s == Min(S)
                 t == Max({u \in Suf : Fits(s, u)})
             IN  Group(s, t)

(***************************************************************************)
(* Clone URLs: common/protocol.ts, which the source imports.  A URL string *)
(* is the record of its parts.                                             *)
(***************************************************************************)
LowerChar(c) ==
    CASE c = "F" -> "f"
      [] c = "H" -> "h"
      [] c = "O" -> "o"
      [] c = "R" -> "r"
      [] OTHER -> c

\* String.prototype.toLocaleLowerCase
Lower(s) == [i \in 1..Len(s) |-> LowerChar(s[i])]

\* new Protocol(uriString): host, owner and repository name of the URL, the
\* name without its ".git"
Protocol(url) ==
    [scheme |-> url.scheme, host |-> url.host, owner |-> url.owner,
     repositoryName |-> url.repositoryName]

\* Protocol.normalizeUri().toString(): https unless the URL is http(s) already,
\* host and path in lower case, no ".git"
normalizeUri(p) ==
    [scheme |-> IF p.scheme \in {"http", "https"} THEN p.scheme ELSE "https",
     host |-> Lower(p.host), owner |-> Lower(p.owner),
     repositoryName |-> Lower(p.repositoryName), dotGit |-> FALSE]

\* Protocol.equals: the normalized URLs are equal
ProtocolEquals(p, q) == normalizeUri(p) = normalizeUri(q)

\* common/remote.ts: a Remote of repository.remotes
Remote(remoteName, url) ==
    [remoteName |-> remoteName, url |-> url, gitProtocol |-> Protocol(url)]

(***************************************************************************)
(* The repository: common/repository.ts, the version-control engine that   *)
(* the source drives.  Each operator gives the state a call leaves.        *)
(***************************************************************************)
Branch(name, commit, upstream, ahead, behind) ==
    [name |-> name, commit |-> commit, upstream |-> upstream,
     ahead |-> ahead, behind |-> behind]

\* the commit a ref of a remote repository points at
ServerCommit(ref) == <<"c">> \o ref

\* repository.getBranch(name): a local branch, else a remote-tracking ref
getBranch(name) ==
    IF name \in DOMAIN branches THEN branches[name]
    ELSE IF name \in DOMAIN remoteRefs
    THEN Branch(name, remoteRefs[name], NULL, UNDEFINED, UNDEFINED)
    ELSE NONE

\* repository.getConfig(key): the value of the entry, NULL without one
ConfigOf(cfgs, key) ==
    LET I == {i \in 1..Len(cfgs) : cfgs[i].key = key}
    IN  IF I = {} THEN NULL ELSE cfgs[Max(I)].value

getConfig(key) == ConfigOf(configs, key)

\* repository.setConfig(key, value): the entry overwritten, or a new last entry
SetConfig(cfgs, key, val) ==
    IF \E i \in 1..Len(cfgs) : cfgs[i].key = key
    THEN [i \in 1..Len(cfgs) |->
              IF cfgs[i].key = key THEN [key |-> key, value |-> val]
              ELSE cfgs[i]]
    ELSE Append(cfgs, [key |-> key, value |-> val])

\* f with x mapped to v
Put(f, x, v) == [y \in DOMAIN f \cup {x} |-> IF y = x THEN v ELSE f[y]]

\* the remote that a remote-tracking ref refs/remotes/<remote>/<ref> belongs to
RemoteOfRef(rs, ref) ==
    LET N == {rs[i].remoteName : i \in 1..Len(rs)}
        M == {r \in N : StartsWith(ref, RefsRemotes \o r \o <<"/">>)}
    IN  IF M = {} THEN NULL ELSE CHOOSE r \in M : \A q \in M : Len(q) <= Len(r)

\* the part of a refspec before (src) and after (dst) its ':'
RefspecSrc(ref) ==
    SubSeq(ref, 1, Min({k \in 1..Len(ref) : ref[k] = ":"}) - 1)
RefspecDst(ref) ==
    SubSeq(ref, Min({k \in 1..Len(ref) : ref[k] = ":"}) + 1, Len(ref))

\* the branch after setTrackingBranch(name, upstreamRef): a branch that had no
\* upstream gets its counts, none ahead of an upstream at its own commit and
\* one behind an upstream at a later commit
Tracking(b, upstreamRef) ==
    [b EXCEPT !.upstream = upstreamRef,
              !.ahead = IF b.ahead = UNDEFINED THEN Num(0) ELSE b.ahead,
              !.behind = IF b.behind # UNDEFINED THEN b.behind
                         ELSE IF /\ upstreamRef \in DOMAIN remoteRefs
                                 /\ remoteRefs[upstreamRef] # b.commit
                         THEN Num(1) ELSE Num(0)]

(***************************************************************************)
(* Pull requests: IPullRequestModel.                                       *)
(***************************************************************************)
Url(scheme, host, owner, repositoryName, dotGit) ==
    [scheme |-> scheme, host |-> host, owner |-> owner,
     repositoryName |-> repositoryName, dotGit |-> dotGit]

PullRequestModel(prNumber, login, headRef, headUrl, baseRef, baseUrl) ==
    [prNumber |-> prNumber, author |-> [login |-> login],
     head |-> [ref |-> headRef, sha |-> ServerCommit(headRef),
               repositoryCloneUrl |-> Protocol(headUrl)],
     base |-> [ref |-> baseRef, sha |-> ServerCommit(baseRef),
               repositoryCloneUrl |-> Protocol(baseUrl)]]

\* https://h/o/r, the repository the pull requests are made against
BaseUrl == Url("https", <<"h">>, <<"o">>, <<"r">>, FALSE)
\* https://H/F/r, a fork of it
ForkUrl == Url("https", <<"H">>, <<"F">>, <<"r">>, FALSE)
\* git@h:f/r.git, the same fork
ForkSshUrl == Url("ssh", <<"h">>, <<"f">>, <<"r">>, TRUE)
\* https://g/F/r, another repository, of another host
OtherUrl == Url("https", <<"g">>, <<"F">>, <<"r">>, FALSE)

\* pull request 1, by a, from branch x of the fork
ForkPullRequest ==
    PullRequestModel(1, <<"a">>, <<"x">>, ForkUrl, <<"m">>, BaseUrl)
\* pull request 2, by a, from branch y of the base repository
LocalPullRequest ==
    PullRequestModel(2, <<"a">>, <<"y">>, BaseUrl, <<"m">>, BaseUrl)

PullRequests == {ForkPullRequest, LocalPullRequest}

(***************************************************************************)
(* Naming.                                                                 *)
(***************************************************************************)
\* `pr/${pullRequest.author.login}/${pullRequest.prNumber}`
BranchNameOf(pr) ==
    PrSlash \o pr.author.login \o <<"/">> \o NumToStr(pr.prNumber)

\* the loop of getUniqueRemoteName
RECURSIVE UniqueRemoteNameLoop(_, _, _, _)
UniqueRemoteNameLoop(rs, name, uniqueName, number) ==
    IF \E i \in 1..Len(rs) : rs[i].remoteName = uniqueName
    THEN UniqueRemoteNameLoop(rs, name, name \o NumToStr(number), number + 1)
    ELSE uniqueName

\* getUniqueRemoteName with an if for its while
getUniqueRemoteName_Once(rs, name) ==
    IF \E i \in 1..Len(rs) : rs[i].remoteName = name
    THEN name \o NumToStr(1)
    ELSE name

getUniqueRemoteName(rs, name) == UniqueRemoteNameLoop(rs, name, name, 1)

(***************************************************************************)
(* Looking a pull request up in the repository.                            *)
(***************************************************************************)
\* getMatchingPullRequestMetadataForBranch
getMatchingPullRequestMetadataForBranch(branchName) ==
    parsePullRequestMetadata(getConfig(MetadataKeyOf(branchName)))

\* getHeadRemoteForPullRequest with the last match for the first
getHeadRemoteForPullRequest_Last(githubRepositories, pr) ==
    LET I == {i \in 1..Len(githubRepositories) :
                 /\ githubRepositories[i].remote.gitProtocol # NONE
                 /\ ProtocolEquals(githubRepositories[i].remote.gitProtocol,
                                   pr.head.repositoryCloneUrl)}
    IN  IF I = {} THEN NONE ELSE githubRepositories[Max(I)].remote

\* getHeadRemoteForPullRequest: the first of githubRepositories whose remote
\* has a gitProtocol that equals the head's clone URL
getHeadRemoteForPullRequest(githubRepositories, pr) ==
    LET I == {i \in 1..Len(githubRepositories) :
                 /\ githubRepositories[i].remote.gitProtocol # NONE
                 /\ ProtocolEquals(githubRepositories[i].remote.gitProtocol,
                                   pr.head.repositoryCloneUrl)}
    IN  IF I = {} THEN NONE ELSE githubRepositories[Min(I)].remote

\* configs.map(...).filter(c => c.branch && c.value === key)
BranchInfos(cfgs, key) ==
    LET infos == [i \in 1..Len(cfgs) |->
                     [branch |-> PullRequestBranchRegex(cfgs[i].key),
                      value |-> cfgs[i].value]]
        Keep(c) == c.branch \notin {NULL, <<>>} /\ c.value = key
    IN  SelectSeq(infos, Keep)

\* getBranchForPullRequestFromExistingRemotes
getBranchForPullRequestFromExistingRemotes(githubRepositories, pr) ==
    LET headRemote == getHeadRemoteForPullRequest(githubRepositories, pr)
        branchInfos == BranchInfos(configs, buildPullRequestMetadata(pr))
        remoteName == getConfig(BranchRemoteKeyOf(branchInfos[1].branch))
        IsNamed(remote) == remote.remoteName = remoteName
        headRemoteMatches == SelectSeq(remotes, IsNamed)
    IN  IF headRemote # NONE
        THEN [remote |-> headRemote, branch |-> pr.head.ref]
        ELSE IF Len(branchInfos) > 0 /\ Len(headRemoteMatches) > 0
        THEN [remote |-> headRemoteMatches[1],
              branch |-> branchInfos[1].branch]
        ELSE NONE

\* repository.remotes as the GitHubRepository list of the caller
GitHubRepositories(rs) == [i \in 1..Len(rs) |-> [remote |-> rs[i]]]

\* the remote and branch that a caller of fetchAndCheckout has for a pull
\* request: a remote of the head's clone URL with the head ref, or a branch
\* associated with the pull request with the remote it is configured for
FetchTargets(pr) ==
    {<<remotes[i], pr.head.ref>> : i \in
        {k \in 1..Len(remotes) :
            ProtocolEquals(remotes[k].gitProtocol, pr.head.repositoryCloneUrl)}}
    \cup
    {<<remotes[t[1]], t[2]>> : t \in
        {u \in (1..Len(remotes)) \X
               {PullRequestBranchRegex(configs[k].key) : k \in 1..Len(configs)} :
            /\ u[2] # NULL
            /\ getConfig(MetadataKeyOf(u[2])) = buildPullRequestMetadata(pr)
            /\ getConfig(BranchRemoteKeyOf(u[2])) = remotes[u[1]].remoteName}}

(***************************************************************************)
(* Running an operation.  Every await of the source is one step; a         *)
(* mutating engine call may fail, and its error ends the operation.        *)
(***************************************************************************)
NoLocals ==
    [branchName |-> NULL, result |-> NULL, number |-> 0,
     localBranchName |-> NULL, remoteName |-> NULL, existing |-> FALSE,
     branch |-> NONE, mergeBases |-> <<>>]

NoOp ==
    [kind |-> "none", pullRequest |-> NONE, remote |-> NONE,
     branchName |-> NULL, cloneUrl |-> NONE, name |-> NULL,
     githubRepositories |-> <<>>, before |-> NONE]

Call(name, args) == [call |-> name, args |-> args]

\* the association entries of a config: key -> value
Associations(cfgs) ==
    {<<cfgs[i].key, cfgs[i].value>> : i \in
        {k \in 1..Len(cfgs) : PullRequestBranchRegex(cfgs[k].key) # NULL}}

\* what the claims compare of a repository
Snapshot(b, rs, c, h) ==
    [branchNames |-> DOMAIN b, remotes |-> rs,
     upstreams |-> [name \in DOMAIN b |-> b[name].upstream],
     configs |-> c,
     associations |-> Associations(c), head |-> h]

\* an operation and its arguments, with the repository it starts from
Operation(kind, pr, remote, branchName, cloneUrl) ==
    [kind |-> kind, pullRequest |-> pr, remote |-> remote,
     branchName |-> branchName, cloneUrl |-> cloneUrl, name |-> NULL,
     githubRepositories |-> <<>>,
     before |-> Snapshot(branches, remotes, configs, HEAD)]

LastTwo(q) == IF Len(q) > 2 THEN SubSeq(q, Len(q) - 1, Len(q)) ELSE q

\* the operation ends, with the repository left as b (branches) and c (configs)
Finish(status, val, b, c) ==
    /\ pc' = "idle"
    /\ result' = [status |-> status, value |-> <<val>>]
    /\ done' = LastTwo(Append(done,
                   [op |-> op', status |-> status, value |-> <<val>>,
                    calls |-> calls',
                    after |-> Snapshot(b, remotes', c, HEAD')]))
    /\ failures' = IF status = "failed" THEN failures + 1 ELSE failures

\* a mutating engine call failed: the operation ends with its error
Throw == Finish("failed", NULL, branches, configs)

\* the outcomes of a mutating engine call, TRUE for success: it cannot succeed
\* unless possible
Outcomes(possible) ==
    {ok \in BOOLEAN : IF ok THEN possible
                      ELSE ~possible \/ failures < MaxFailures}

\* an operation is called
Begin(o, l) ==
    /\ pc = "idle"
    /\ count < MaxOps
    /\ count' = count + 1
    /\ op' = o
    /\ loc' = l
    /\ calls' = <<>>
    /\ UNCHANGED <<repoVars, codecVars, added>>

\* an operation is called and stands before its first await
Start(o, l, at) ==
    /\ Begin(o, l)
    /\ pc' = at
    /\ UNCHANGED <<result, done, failures>>

(***************************************************************************)
(* getBranchNameForPullRequest                                             *)
(***************************************************************************)
GetBranchNameForPullRequest(pr) ==
    Start(Operation("getBranchNameForPullRequest", pr, NONE, NULL, NONE),
          [NoLocals EXCEPT !.branchName = BranchNameOf(pr),
                           !.result = BranchNameOf(pr), !.number = 1],
          "getBranchName")

\* the loop with an if for its while: the suffixed name is not looked up
GetBranchNameLoop_Once ==
    LET name == IF getBranch(loc.result) # NONE
                THEN loc.branchName \o <<"-">> \o NumToStr(loc.number)
                ELSE loc.result
    IN  /\ pc = "getBranchName"
        /\ UNCHANGED <<repoVars, op, calls, count, codecVars, added>>
        /\ IF op.kind = "getBranchNameForPullRequest"
           THEN /\ loc' = [loc EXCEPT !.result = name]
                /\ Finish("ok", name, branches, configs)
           ELSE /\ loc' = [loc EXCEPT !.result = name,
                                      !.localBranchName = name]
                /\ pc' = "getBranch"
                /\ UNCHANGED <<result, done, failures>>

\* one turn of the loop: await repository.getBranch(result)
GetBranchNameLoop ==
    /\ pc = "getBranchName"
    /\ UNCHANGED <<repoVars, op, calls, count, codecVars, added>>
    /\ IF getBranch(loc.result) # NONE
       THEN /\ loc' = [loc EXCEPT
                         !.result = loc.branchName \o <<"-">>
                                        \o NumToStr(loc.number),
                         !.number = loc.number + 1]
            /\ UNCHANGED <<pc, result, done, failures>>
       ELSE IF op.kind = "getBranchNameForPullRequest"
            THEN /\ Finish("ok", loc.result, branches, configs)
                 /\ UNCHANGED loc
            ELSE /\ loc' = [loc EXCEPT !.localBranchName = loc.result]
                 /\ pc' = "getBranch"
                 /\ UNCHANGED <<result, done, failures>>

(***************************************************************************)
(* createRemote                                                            *)
(***************************************************************************)
CloneUrlArg ==
    IF op.kind = "createRemote" THEN op.cloneUrl
    ELSE op.pullRequest.head.repositoryCloneUrl

\* the remotes whose URL is cloneUrl as it is written, by their place
RemotesAt_AsWritten(rs, cloneUrl) ==
    {i \in 1..Len(rs) : Protocol(rs[i].url) = cloneUrl}

\* the remotes whose URL equals cloneUrl, by their place in the list
RemotesAt(rs, cloneUrl) ==
    {i \in 1..Len(rs) : ProtocolEquals(Protocol(rs[i].url), cloneUrl)}

CreateRemote(cloneUrl) ==
    Start(Operation("createRemote", NONE, NONE, NULL, cloneUrl), NoLocals,
          "createRemote")

\* createRemote returns remoteName
CreateRemoteReturn(remoteName, b, c) ==
    IF op.kind = "createRemote"
    THEN /\ Finish("ok", remoteName, b, c)
         /\ loc' = [loc EXCEPT !.remoteName = remoteName]
    ELSE /\ loc' = [loc EXCEPT !.remoteName = remoteName]
         /\ pc' = "fetch"
         /\ UNCHANGED <<result, done, failures>>

\* the scan of the remotes, getUniqueRemoteName and await addRemote
CreateRemoteAdd ==
    /\ pc = "createRemote"
    /\ UNCHANGED <<branches, remoteRefs, configs, HEAD, op, count, codecVars>>
    /\ IF RemotesAt(remotes, CloneUrlArg) # {}
       THEN /\ UNCHANGED <<remotes, calls, added>>
            /\ CreateRemoteReturn(
                   remotes[Min(RemotesAt(remotes, CloneUrlArg))].remoteName,
                   branches, configs)
       ELSE LET remoteName == getUniqueRemoteName(remotes, CloneUrlArg.owner)
                url == normalizeUri(CloneUrlArg)
            IN  /\ calls' = Append(calls, Call("addRemote", <<remoteName, url>>))
                /\ \E ok \in Outcomes(TRUE) :
                     IF ok
                     THEN /\ remotes' = Append(remotes, Remote(remoteName, url))
                          /\ added' = added \cup {remoteName}
                          /\ loc' = [loc EXCEPT !.remoteName = remoteName]
                          /\ pc' = "createRemote_setConfig"
                          /\ UNCHANGED <<result, done, failures>>
                     ELSE /\ UNCHANGED <<remotes, added, loc>>
                          /\ Throw

\* the marker written under the owner's name, not under the remote's
CreateRemoteSetConfig_OfOwner ==
    /\ pc = "createRemote_setConfig"
    /\ UNCHANGED <<branches, remoteRefs, remotes, HEAD, op, count, codecVars, added>>
    /\ calls' = Append(calls, Call("setConfig",
                           <<RemoteMetadataKeyOf(CloneUrlArg.owner), True>>))
    /\ \E ok \in Outcomes(TRUE) :
         IF ok
         THEN /\ configs' = SetConfig(configs,
                                RemoteMetadataKeyOf(CloneUrlArg.owner), True)
              /\ CreateRemoteReturn(loc.remoteName, branches, configs')
         ELSE /\ UNCHANGED <<configs, loc>>
              /\ Throw

\* await setConfig(`remote.${remoteName}.github-pr-remote`, 'true')
CreateRemoteSetConfig ==
    /\ pc = "createRemote_setConfig"
    /\ UNCHANGED <<branches, remoteRefs, remotes, HEAD, op, count, codecVars, added>>
    /\ calls' = Append(calls, Call("setConfig",
                           <<RemoteMetadataKeyOf(loc.remoteName), True>>))
    /\ \E ok \in Outcomes(TRUE) :
         IF ok
         THEN /\ configs' = SetConfig(configs,
                                RemoteMetadataKeyOf(loc.remoteName), True)
              /\ CreateRemoteReturn(loc.remoteName, branches, configs')
         ELSE /\ UNCHANGED <<configs, loc>>
              /\ Throw

(***************************************************************************)
(* createAndCheckout                                                       *)
(***************************************************************************)
CreateAndCheckout(pr) ==
    Start(Operation("createAndCheckout", pr, NONE, NULL, NONE),
          [NoLocals EXCEPT !.branchName = BranchNameOf(pr),
                           !.result = BranchNameOf(pr), !.number = 1],
          "getBranchName")

\* let existing = await repository.getBranch(localBranchName)
CreateAndCheckoutGetBranch ==
    /\ pc = "getBranch"
    /\ UNCHANGED <<repoVars, op, calls, result, done, count, failures, codecVars, added>>
    /\ loc' = [loc EXCEPT !.existing = getBranch(loc.localBranchName) # NONE]
    /\ pc' = IF getBranch(loc.localBranchName) # NONE THEN "checkout"
             ELSE "createRemote"

\* await repository.fetch(remoteName, `${head.ref}:${localBranchName}`): the
\* local branch and the remote-tracking ref are set to the fetched commit
CreateAndCheckoutFetch ==
    /\ pc = "fetch"
    /\ UNCHANGED <<remotes, configs, HEAD, op, loc, count, codecVars, added>>
    /\ LET ref == op.pullRequest.head.ref \o <<":">> \o loc.localBranchName
           src == RefspecSrc(ref)
           dst == RefspecDst(ref)
       IN  /\ calls' = Append(calls, Call("fetch", <<loc.remoteName, ref>>))
           /\ \E ok \in Outcomes(TRUE) :
                IF ok
                THEN /\ branches' = Put(branches, dst,
                             Branch(dst, ServerCommit(src), NULL,
                                    UNDEFINED, UNDEFINED))
                     /\ remoteRefs' = Put(remoteRefs,
                             TrackedBranchName(loc.remoteName, src),
                             ServerCommit(src))
                     /\ pc' = "checkout"
                     /\ UNCHANGED <<result, done, failures>>
                ELSE /\ UNCHANGED <<branches, remoteRefs>>
                     /\ Throw

\* checkout with its error caught: the operation goes on
CreateAndCheckoutCheckout_Caught ==
    /\ pc = "checkout"
    /\ UNCHANGED <<branches, remoteRefs, remotes, configs, op, loc, count, codecVars, added>>
    /\ calls' = Append(calls, Call("checkout", <<loc.localBranchName>>))
    /\ \E ok \in Outcomes(loc.localBranchName \in DOMAIN branches) :
         /\ HEAD' = IF ok THEN loc.localBranchName ELSE HEAD
         /\ pc' = IF loc.existing THEN "setConfig" ELSE "setTrackingBranch"
         /\ UNCHANGED <<result, done, failures>>

\* await repository.checkout(localBranchName), of either branch of the if
CreateAndCheckoutCheckout ==
    /\ pc = "checkout"
    /\ UNCHANGED <<branches, remoteRefs, remotes, configs, op, loc, count, codecVars, added>>
    /\ calls' = Append(calls, Call("checkout", <<loc.localBranchName>>))
    /\ \E ok \in Outcomes(loc.localBranchName \in DOMAIN branches) :
         IF ok
         THEN /\ HEAD' = loc.localBranchName
              /\ pc' = IF loc.existing THEN "setConfig" ELSE "setTrackingBranch"
              /\ UNCHANGED <<result, done, failures>>
         ELSE /\ UNCHANGED HEAD
              /\ Throw

\* await repository.setTrackingBranch(localBranchName,
\*     `refs/remotes/${remoteName}/${head.ref}`): the branch's upstream, and
\* its branch.<name>.remote entry
SetTrackingBranch(name, upstreamRef, next) ==
    /\ UNCHANGED <<remoteRefs, remotes, HEAD, op, count, codecVars, added>>
    /\ calls' = Append(calls, Call("setTrackingBranch", <<name, upstreamRef>>))
    /\ \E ok \in Outcomes(/\ name \in DOMAIN branches
                            /\ RemoteOfRef(remotes, upstreamRef) # NULL) :
         IF ok
         THEN /\ branches' = [branches EXCEPT
                                ![name] = Tracking(branches[name], upstreamRef)]
              /\ configs' = SetConfig(configs, BranchRemoteKeyOf(name),
                                      RemoteOfRef(remotes, upstreamRef))
              /\ pc' = next
              /\ UNCHANGED <<result, done, failures>>
         ELSE /\ UNCHANGED <<branches, configs>>
              /\ Throw

\* setTrackingBranch with the local branch's name for the head ref
CreateAndCheckoutSetTrackingBranch_OfLocalName ==
    /\ pc = "setTrackingBranch"
    /\ UNCHANGED loc
    /\ SetTrackingBranch(loc.localBranchName,
           TrackedBranchName(loc.remoteName, loc.localBranchName),
           "setConfig")

CreateAndCheckoutSetTrackingBranch ==
    /\ pc = "setTrackingBranch"
    /\ UNCHANGED loc
    /\ SetTrackingBranch(loc.localBranchName,
           TrackedBranchName(loc.remoteName, op.pullRequest.head.ref),
           "setConfig")

\* await repository.setConfig(`branch.${branchName}.github-pr-owner-number`,
\*     buildPullRequestMetadata(pullRequest)), which ends the operation
Associate(branchName) ==
    /\ UNCHANGED <<branches, remoteRefs, remotes, HEAD, op, loc, count, codecVars, added>>
    /\ calls' = Append(calls, Call("setConfig",
           <<MetadataKeyOf(branchName),
             buildPullRequestMetadata(op.pullRequest)>>))
    /\ \E ok \in Outcomes(TRUE) :
         IF ok
         THEN /\ configs' = SetConfig(configs, MetadataKeyOf(branchName),
                                buildPullRequestMetadata(op.pullRequest))
              /\ Finish("ok", NULL, branches, configs')
         ELSE /\ UNCHANGED configs
              /\ Throw

\* the association written for the candidate name, not for the name chosen
CreateAndCheckoutSetConfig_OfCandidate ==
    /\ pc = "setConfig"
    /\ Associate(loc.branchName)

CreateAndCheckoutSetConfig ==
    /\ pc = "setConfig"
    /\ Associate(loc.localBranchName)

(***************************************************************************)
(* fetchAndCheckout and fetchAndCreateBranch                               *)
(***************************************************************************)
FetchAndCheckout(remote, branchName, pr) ==
    Start(Operation("fetchAndCheckout", pr, remote, branchName, NONE),
          [NoLocals EXCEPT !.remoteName = remote.remoteName], "fetchAll")

\* if (branch.behind !== undefined && branch.behind > 0 && branch.ahead === 0)
PullOrAssociate(branch) ==
    IF branch.behind # UNDEFINED /\ branch.behind.val > 0
           /\ branch.ahead = Num(0)
    THEN "pull" ELSE "associate"

\* await repository.fetch(remoteName), which leaves the remote-tracking ref of
\* branchName present or absent; then let branch = getBranch(branchName)
FetchAndCheckoutFetch ==
    /\ pc = "fetchAll"
    /\ UNCHANGED <<branches, remotes, configs, HEAD, op, count, codecVars, added>>
    /\ calls' = Append(calls, Call("fetch", <<loc.remoteName>>))
    /\ \E outcome \in {"present", "absent"}
                        \cup {o \in {"failed"} : FALSE \in Outcomes(TRUE)} :
         IF outcome = "failed"
         THEN /\ UNCHANGED <<remoteRefs, loc>>
              /\ Throw
         ELSE /\ remoteRefs' =
                    IF outcome = "present"
                    THEN Put(remoteRefs,
                             TrackedBranchName(loc.remoteName, op.branchName),
                             ServerCommit(op.branchName))
                    ELSE remoteRefs
              /\ loc' = [loc EXCEPT !.branch = getBranch(op.branchName)]
              /\ pc' = IF getBranch(op.branchName) = NONE THEN "createBranch"
                       ELSE "checkoutBranch"
              /\ UNCHANGED <<result, done, failures>>

\* fetchAndCreateBranch that returns where it should throw
FetchAndCreateBranch_NoThrow ==
    /\ pc = "createBranch"
    /\ UNCHANGED <<remoteRefs, remotes, configs, HEAD, op, loc, count, codecVars, added>>
    /\ LET trackedBranch ==
               getBranch(TrackedBranchName(loc.remoteName, op.branchName))
       IN  IF trackedBranch # NONE
           THEN /\ calls' = Append(calls, Call("createBranch",
                                 <<op.branchName, trackedBranch.commit>>))
                /\ branches' = Put(branches, op.branchName,
                                 Branch(op.branchName, trackedBranch.commit,
                                        NULL, UNDEFINED, UNDEFINED))
                /\ pc' = "createBranch_setTrackingBranch"
                /\ UNCHANGED <<result, done, failures>>
           ELSE /\ UNCHANGED <<branches, calls, result, done, failures>>
                /\ pc' = "checkoutBranch"

\* fetchAndCreateBranch: getBranch(trackedBranchName), then createBranch at its
\* commit, or throw new Error(`Could not find branch ...`)
FetchAndCreateBranch ==
    /\ pc = "createBranch"
    /\ UNCHANGED <<remoteRefs, remotes, configs, HEAD, op, loc, count, codecVars, added>>
    /\ LET trackedBranch ==
               getBranch(TrackedBranchName(loc.remoteName, op.branchName))
       IN  IF trackedBranch # NONE
           THEN /\ calls' = Append(calls, Call("createBranch",
                                 <<op.branchName, trackedBranch.commit>>))
                /\ \E ok \in Outcomes(TRUE) :
                     IF ok
                     THEN /\ branches' = Put(branches, op.branchName,
                                 Branch(op.branchName, trackedBranch.commit,
                                        NULL, UNDEFINED, UNDEFINED))
                          /\ pc' = "createBranch_setTrackingBranch"
                          /\ UNCHANGED <<result, done, failures>>
                     ELSE /\ UNCHANGED branches
                          /\ Throw
           ELSE /\ UNCHANGED <<branches, calls>>
                /\ Finish("error", NULL, branches, configs)

\* await setTrackingBranch(branchName, trackedBranchName), and back in
\* fetchAndCheckout: branch = await repository.getBranch(branchName)
FetchAndCreateBranchSetTrackingBranch ==
    /\ pc = "createBranch_setTrackingBranch"
    /\ SetTrackingBranch(op.branchName,
           TrackedBranchName(loc.remoteName, op.branchName), "checkoutBranch")
    /\ loc' = [loc EXCEPT !.branch =
                  IF op.branchName \in DOMAIN branches'
                  THEN branches'[op.branchName] ELSE NONE]

\* checkout that goes on without the test of branch.upstream
FetchAndCheckoutCheckout_NoUpstream ==
    /\ pc = "checkoutBranch"
    /\ UNCHANGED <<branches, remoteRefs, remotes, configs, op, loc, count, codecVars, added>>
    /\ calls' = Append(calls, Call("checkout", <<op.branchName>>))
    /\ \E ok \in Outcomes(op.branchName \in DOMAIN branches) :
         IF ok
         THEN /\ HEAD' = op.branchName
              /\ pc' = PullOrAssociate(loc.branch)
              /\ UNCHANGED <<result, done, failures>>
         ELSE /\ UNCHANGED HEAD
              /\ Throw

\* await repository.checkout(branchName)
FetchAndCheckoutCheckout ==
    /\ pc = "checkoutBranch"
    /\ UNCHANGED <<branches, remoteRefs, remotes, configs, op, loc, count, codecVars, added>>
    /\ calls' = Append(calls, Call("checkout", <<op.branchName>>))
    /\ \E ok \in Outcomes(op.branchName \in DOMAIN branches) :
         IF ok
         THEN /\ HEAD' = op.branchName
              /\ pc' = IF loc.branch.upstream \in {NULL, <<>>}
                       THEN "setUpstream" ELSE PullOrAssociate(loc.branch)
              /\ UNCHANGED <<result, done, failures>>
         ELSE /\ UNCHANGED HEAD
              /\ Throw

\* if (!branch.upstream) await setTrackingBranch(branchName, trackedBranchName)
FetchAndCheckoutSetTrackingBranch ==
    /\ pc = "setUpstream"
    /\ UNCHANGED loc
    /\ SetTrackingBranch(op.branchName,
           TrackedBranchName(loc.remoteName, op.branchName),
           PullOrAssociate(loc.branch))

\* await repository.run(['pull']): the checked-out branch is fast-forwarded to
\* its upstream
FetchAndCheckoutPull ==
    /\ pc = "pull"
    /\ UNCHANGED <<remoteRefs, remotes, configs, HEAD, op, loc, count, codecVars, added>>
    /\ calls' = Append(calls, Call("run", <<"pull">>))
    /\ \E ok \in Outcomes(HEAD \in DOMAIN branches) :
         IF ok
         THEN /\ branches' = [branches EXCEPT
                    ![HEAD] = [@ EXCEPT
                        !.commit = IF @ # NULL /\ branches[HEAD].upstream
                                                  \in DOMAIN remoteRefs
                                   THEN remoteRefs[branches[HEAD].upstream]
                                   ELSE @,
                        !.behind = Num(0)]]
              /\ pc' = "associate"
              /\ UNCHANGED <<result, done, failures>>
         ELSE /\ UNCHANGED branches
              /\ Throw

\* await associateBranchWithPullRequest(repository, pullRequest, branchName)
FetchAndCheckoutAssociate ==
    /\ pc = "associate"
    /\ Associate(op.branchName)

(***************************************************************************)
(* The repositories the operations start from.                             *)
(***************************************************************************)
\* a branch made by hand: no upstream
ManualBranch(name) ==
    Branch(name, <<"c", "0">>, NULL, UNDEFINED, UNDEFINED)

\* a branch that tracks refs/remotes/origin/<name>
TrackingBranch(name, ahead, behind) ==
    Branch(name, <<"c", "0">>, TrackedBranchName(Origin, name),
           Num(ahead), Num(behind))

\* branches made by hand under the names S
ManualBranches(S) == [name \in S |-> ManualBranch(name)]

Repository(b, rr, rs, c) ==
    [branches |-> b, remoteRefs |-> rr, remotes |-> rs, configs |-> c]

OriginRemote == Remote(Origin, BaseUrl)

InitialRemotes ==
    {<<>>,
     <<OriginRemote>>,
     \* a remote that has the name of the fork's owner and another URL
     <<OriginRemote, Remote(<<"F">>, OtherUrl)>>,
     \* a remote of the fork, under another name and spelling of its URL
     <<OriginRemote, Remote(<<"u">>, ForkSshUrl)>>}

InitialRepositories ==
    \* branches made by hand under the names of pull request 1
    {Repository(ManualBranches(S), <<>>, rs, <<>>) :
        S \in {{}, {BranchNameOf(ForkPullRequest)},
               {BranchNameOf(ForkPullRequest),
                BranchNameOf(ForkPullRequest) \o <<"-", "1">>}},
        rs \in InitialRemotes}
    \cup
    \* the head branch of pull request 2, made by hand
    {Repository(ManualBranches({<<"y">>}), <<>>, <<OriginRemote>>,
                <<>>)}
    \cup
    \* the head branch of pull request 2, tracking origin
    {Repository(
        (<<"y">> :> TrackingBranch(<<"y">>, ahead, behind)),
        (TrackedBranchName(Origin, <<"y">>) :> ServerCommit(<<"y">>)),
        <<OriginRemote>>,
        <<[key |-> BranchRemoteKeyOf(<<"y">>), value |-> Origin]>>) :
        ahead \in 0..1, behind \in 0..1}

Idle ==
    /\ pc = "idle"
    /\ op = NoOp
    /\ loc = NoLocals
    /\ calls = <<>>
    /\ result = [status |-> "none", value |-> <<NULL>>]
    /\ done = <<>>
    /\ count = 0
    /\ failures = 0
    /\ added = {}

NoCodec ==
    /\ value = NULL
    /\ parsed = NONE
    /\ pullRequest = NONE

Init ==
    /\ \E r \in InitialRepositories :
         /\ branches = r.branches
         /\ remoteRefs = r.remoteRefs
         /\ remotes = r.remotes
         /\ configs = r.configs
    /\ HEAD = NULL
    /\ Idle
    /\ NoCodec

Next ==
    \/ \E pr \in PullRequests : CreateAndCheckout(pr)
    \/ /\ pc = "idle"
       /\ \E pr \in PullRequests : \E t \in FetchTargets(pr) :
              FetchAndCheckout(t[1], t[2], pr)
    \/ GetBranchNameLoop
    \/ CreateAndCheckoutGetBranch
    \/ CreateRemoteAdd
    \/ CreateRemoteSetConfig
    \/ CreateAndCheckoutFetch
    \/ CreateAndCheckoutCheckout
    \/ CreateAndCheckoutSetTrackingBranch
    \/ CreateAndCheckoutSetConfig
    \/ FetchAndCheckoutFetch
    \/ FetchAndCreateBranch
    \/ FetchAndCreateBranchSetTrackingBranch
    \/ FetchAndCheckoutCheckout
    \/ FetchAndCheckoutSetTrackingBranch
    \/ FetchAndCheckoutPull
    \/ FetchAndCheckoutAssociate

Spec == Init /\ [][Next]_vars

(***************************************************************************)
(* The codec on its own: parsePullRequestMetadata of any short string, and *)
(* of what buildPullRequestMetadata gives for a pull request.              *)
(***************************************************************************)
\* the characters of the strings given to parsePullRequestMetadata
ParseAlphabet == {"a", "1", "#", "\n", "\r"}

ParseInputs == {NULL} \cup SeqsUpTo(ParseAlphabet, MaxLen)

\* owner and repository names: segments of the path of a clone URL, which
\* holds no line terminator
NameAlphabet == {"a", "1", "#"}

CodecPullRequests ==
    {PullRequestModel(n, <<"a">>, <<"x">>, ForkUrl, <<"m">>,
                      Url("https", <<"h">>, owner, repositoryName, FALSE)) :
        n \in 0..MaxPrNumber,
        owner \in SeqsUpTo(NameAlphabet, MaxNameLen),
        repositoryName \in SeqsUpTo(NameAlphabet, MaxNameLen)}

EmptyRepository ==
    /\ branches = <<>>
    /\ remoteRefs = <<>>
    /\ remotes = <<>>
    /\ configs = <<>>
    /\ HEAD = NULL

\* nothing is parsed yet: the string, or the pull request, to parse is chosen
InitCodec ==
    /\ EmptyRepository
    /\ Idle
    /\ parsed = NONE
    /\ \/ value \in ParseInputs /\ pullRequest = NONE
       \/ value = NULL /\ pullRequest \in CodecPullRequests

\* parsePullRequestMetadata(value)
Parse ==
    /\ count = 0
    /\ pullRequest = NONE
    /\ parsed' = parsePullRequestMetadata(value)
    /\ count' = 1
    /\ UNCHANGED <<repoVars, pc, op, loc, calls, result, done, failures, added>>
    /\ UNCHANGED <<value, pullRequest>>

\* parsePullRequestMetadata(buildPullRequestMetadata(pullRequest))
BuildAndParse ==
    /\ count = 0
    /\ pullRequest # NONE
    /\ value' = buildPullRequestMetadata(pullRequest)
    /\ parsed' = parsePullRequestMetadata(value')
    /\ count' = 1
    /\ UNCHANGED <<repoVars, pc, op, loc, calls, result, done, failures, added>>
    /\ UNCHANGED pullRequest

NextCodec ==
    \/ Parse
    \/ BuildAndParse

SpecCodec == InitCodec /\ [][NextCodec]_vars

HasHash(s) == \E k \in 1..Len(s) : s[k] = "#"

\* C7: for a pull request whose base owner and base repository name hold no
\* '#', parsePullRequestMetadata(buildPullRequestMetadata(p)) is p's base
\* owner, base repository name and prNumber.
C7_RoundTrip ==
    (/\ count = 1
     /\ pullRequest # NONE
     /\ ~HasHash(pullRequest.base.repositoryCloneUrl.owner)
     /\ ~HasHash(pullRequest.base.repositoryCloneUrl.repositoryName))
    => parsed = [owner |-> pullRequest.base.repositoryCloneUrl.owner,
                 repositoryName |->
                     pullRequest.base.repositoryCloneUrl.repositoryName,
                 prNumber |-> Num(pullRequest.prNumber)]

\* a pull request 12 of a1/a was built and parsed back
C7_Witness ==
    /\ count = 1
    /\ pullRequest # NONE
    /\ pullRequest.prNumber = 12
    /\ pullRequest.base.repositoryCloneUrl.owner = <<"a", "1">>
    /\ pullRequest.base.repositoryCloneUrl.repositoryName = <<"a">>
    /\ value = <<"a", "1", "#", "a", "#", "1", "2">>
    /\ parsed # NONE

\* the places of the '#' of a string
HashesOf(v) == {k \in 1..Len(v) : v[k] = "#"}

\* v is three '#'-delimited groups: it holds two '#'
ThreeGroups(v) == v # NULL /\ Cardinality(HashesOf(v)) = 2

\* C8 as claimed: parsePullRequestMetadata returns a non-null result only for
\* a string of exactly three '#'-delimited groups.
C8_OnlyThreeGroups == (count = 1 /\ parsed # NONE) => ThreeGroups(value)

\* two '#' of v with no line terminator from the one to the other
TwoHashesOnALine(v) ==
    \E i, j \in HashesOf(v) :
        /\ i < j
        /\ \A k \in i..j : v[k] \notin {"\n", "\r"}

\* C8, amended: parsePullRequestMetadata returns null exactly for null, for
\* the empty string and for a string no line of which holds two '#'; it
\* returns a result for every other string, of three groups or of more.
C8_NullWithoutTwoHashes ==
    count = 1 => (parsed = NONE <=> (value = NULL \/ ~TwoHashesOnALine(value)))

\* a string of four groups was parsed, to a result
C8_Witness ==
    /\ count = 1
    /\ pullRequest = NONE
    /\ value = <<"a", "#", "#", "#">>
    /\ parsed = [owner |-> <<"a", "#">>, repositoryName |-> <<>>,
                 prNumber |-> Num(0)]

(***************************************************************************)
(* The two naming functions on their own, in repositories whose branches   *)
(* and remotes hold the candidate names and their suffixed forms.          *)
(***************************************************************************)
\* the highest suffix of a name that a repository holds to begin with
MaxSuffix == 2

\* name, name + sep + 1 .. name + sep + MaxSuffix
Suffixed(name, sep) ==
    {name} \cup {name \o sep \o NumToStr(k) : k \in 1..MaxSuffix}

NamingBranchNames ==
    Suffixed(BranchNameOf(ForkPullRequest), <<"-">>)
        \cup {BranchNameOf(LocalPullRequest)}

NamingRemoteNames == Suffixed(ForkUrl.owner, <<>>)

\* the remotes of the names of S, in the order of their names' lengths
RECURSIVE RemotesNamed(_)
RemotesNamed(S) ==
    IF S = {} THEN <<>>
    ELSE LET longest == CHOOSE x \in S : \A y \in S : Len(y) <= Len(x)
         IN  Append(RemotesNamed(S \ {longest}), Remote(longest, OtherUrl))

InitNaming ==
    /\ \E B \in SUBSET NamingBranchNames : branches = ManualBranches(B)
    /\ \E R \in SUBSET NamingRemoteNames : remotes = RemotesNamed(R)
    /\ remoteRefs = <<>>
    /\ configs = <<>>
    /\ HEAD = NULL
    /\ Idle
    /\ NoCodec

\* getUniqueRemoteName(repository, name): no await in it, one step
GetUniqueRemoteName(name) ==
    /\ Begin([Operation("getUniqueRemoteName", NONE, NONE, NULL, NONE)
                  EXCEPT !.name = name], NoLocals)
    /\ Finish("ok", getUniqueRemoteName(remotes, name), branches, configs)

NextNaming ==
    \/ \E pr \in PullRequests : GetBranchNameForPullRequest(pr)
    \/ GetBranchNameLoop
    \/ \E name \in {ForkUrl.owner, BaseUrl.owner} : GetUniqueRemoteName(name)

\* an await of getBranch resolves
SpecNaming ==
    InitNaming /\ [][NextNaming]_vars /\ WF_vars(GetBranchNameLoop)

\* the last operation that ended, of the given kind and successful
Returned(kind) ==
    /\ pc = "idle"
    /\ done # <<>>
    /\ done[Len(done)].op.kind = kind
    /\ done[Len(done)].status = "ok"

LastDone == done[Len(done)]

ReturnValue == LastDone.value[1]

\* pr/<authorLogin>/<prNumber>, written out for the two pull requests
CandidateOf(pr) ==
    IF pr.prNumber = 1 THEN <<"p", "r", "/", "a", "/", "1">>
    ELSE <<"p", "r", "/", "a", "/", "2">>

\* name + sep + k in decimal, for k < 10
WithSuffix(name, sep, k) ==
    name \o sep \o <<<<"0", "1", "2", "3", "4", "5", "6", "7", "8", "9">>[k + 1]>>

\* C5: getBranchNameForPullRequest returns a name that no local branch has:
\* the candidate n = pr/<authorLogin>/<prNumber> when no branch has it, and
\* otherwise n-k for the smallest k >= 1 that no branch has.
C5_Returns ==
    Returned("getBranchNameForPullRequest") =>
        LET n == CandidateOf(LastDone.op.pullRequest)
            S == DOMAIN branches
        IN  /\ ReturnValue \notin S
            /\ n \notin S => ReturnValue = n
            /\ n \in S =>
                 \E k \in 1..(Cardinality(S) + 1) :
                     /\ ReturnValue = WithSuffix(n, <<"-">>, k)
                     /\ \A j \in 1..(k - 1) : WithSuffix(n, <<"-">>, j) \in S

\* C5: getBranchNameForPullRequest terminates: every call of it returns, with
\* the name of C5_Returns.
C5_BranchName ==
    /\ []C5_Returns
    /\ (pc = "getBranchName") ~> (pc = "idle")

\* getBranchNameForPullRequest(#1) has returned pr/a/1-3 where pr/a/1,
\* pr/a/1-1 and pr/a/1-2 were branches
C5_Witness ==
    /\ Returned("getBranchNameForPullRequest")
    /\ LastDone.op.pullRequest.prNumber = 1
    /\ ReturnValue = <<"p", "r", "/", "a", "/", "1", "-", "3">>
    /\ <<"p", "r", "/", "a", "/", "1", "-", "2">> \in DOMAIN branches

RemoteNames == {remotes[i].remoteName : i \in 1..Len(remotes)}

\* C6: getUniqueRemoteName returns a name that no remote has: the bare name
\* when no remote has it, otherwise <name>k for the smallest k >= 1 that no
\* remote has; two calls with the same name on the same remotes return the
\* same.
C6_UniqueRemoteName ==
    /\ Returned("getUniqueRemoteName") =>
         LET name == LastDone.op.name
         IN  /\ ReturnValue \notin RemoteNames
             /\ name \notin RemoteNames => ReturnValue = name
             /\ name \in RemoteNames =>
                  \E k \in 1..(Len(remotes) + 1) :
                      /\ ReturnValue = WithSuffix(name, <<>>, k)
                      /\ \A j \in 1..(k - 1) :
                             WithSuffix(name, <<>>, j) \in RemoteNames
    /\ (/\ Len(done) = 2
        /\ done[1].op.kind = "getUniqueRemoteName"
        /\ done[2].op.kind = "getUniqueRemoteName"
        /\ done[1].op.name = done[2].op.name
        /\ done[1].op.before.remotes = done[2].op.before.remotes)
       => done[1].value = done[2].value

\* getUniqueRemoteName("F") has returned F3 twice where F, F1 and F2 were
\* remotes
C6_Witness ==
    /\ Len(done) = 2
    /\ \A i \in 1..2 :
         /\ done[i].op.kind = "getUniqueRemoteName"
         /\ done[i].op.name = <<"F">>
         /\ done[i].value = <<<<"F", "3">>>>
    /\ {<<"F">>, <<"F", "1">>, <<"F", "2">>} \subseteq RemoteNames

(***************************************************************************)
(* getBranchForPullRequestFromExistingRemotes on its own, in repositories  *)
(* with associations, fresh and stale, and with several lists of known     *)
(* remotes.                                                                *)
(***************************************************************************)
\* the most entries of githubRepositories
MaxRepos == 2

Entry(key, val) == [key |-> key, value |-> val]

\* the lists made of one list of each of the sets of lists in the sequence Q
RECURSIVE Concats(_)
Concats(Q) ==
    IF Q = <<>> THEN {<<>>}
    ELSE {x \o y : x \in Q[1], y \in Concats(Tail(Q))}

\* configs: the branches p and q associated with pull request #1, or only one,
\* in either order, with or without a remote configured; v is no remote
LookupConfigs ==
    LET P == Entry(MetadataKeyOf(<<"p">>), buildPullRequestMetadata(ForkPullRequest))
        Q == Entry(MetadataKeyOf(<<"q">>), buildPullRequestMetadata(ForkPullRequest))
        u == Entry(RemoteMetadataKeyOf(<<"u">>), True)
    IN  Concats(<<{<<>>, <<u>>},
                  {<<>>, <<Entry(BranchRemoteKeyOf(<<"p">>), <<"u">>)>>,
                         <<Entry(BranchRemoteKeyOf(<<"p">>), <<"v">>)>>},
                  {<<>>, <<P>>, <<Q>>, <<P, Q>>, <<Q, P>>},
                  {<<>>, <<Entry(BranchRemoteKeyOf(<<"q">>), <<"u">>)>>}>>)

\* repository.remotes: those of InitialRemotes, and two remotes of the fork
LookupRemotes ==
    InitialRemotes
        \cup {<<OriginRemote, Remote(<<"u">>, ForkSshUrl),
                Remote(ForkUrl.owner, normalizeUri(ForkUrl))>>}

\* a remote whose URL is not one of a hosted repository: it has no gitProtocol
NoProtocolRemote ==
    [remoteName |-> <<"n">>, url |-> NONE, gitProtocol |-> NONE]

InitLookup ==
    /\ branches = <<>>
    /\ remoteRefs = <<>>
    /\ remotes \in LookupRemotes
    /\ configs \in LookupConfigs
    /\ HEAD = NULL
    /\ Idle
    /\ NoCodec

\* the lists of known repositories that a caller may pass
KnownRepositories ==
    SeqsUpTo({[remote |-> remotes[i]] : i \in 1..Len(remotes)}
                 \cup {[remote |-> NoProtocolRemote]}, MaxRepos)

\* getBranchForPullRequestFromExistingRemotes(repository, githubRepositories,
\* pullRequest): it reads the repository and changes nothing; one lookup is
\* followed from each repository
GetBranchForPullRequestFromExistingRemotes(githubRepositories, pr) ==
    /\ count = 0
    /\ Begin([Operation("getBranchForPullRequestFromExistingRemotes",
                        pr, NONE, NULL, NONE)
                  EXCEPT !.githubRepositories = githubRepositories], NoLocals)
    /\ Finish("ok",
              getBranchForPullRequestFromExistingRemotes(githubRepositories, pr),
              branches, configs)

NextLookup ==
    \E githubRepositories \in KnownRepositories, pr \in PullRequests :
        GetBranchForPullRequestFromExistingRemotes(githubRepositories, pr)

SpecLookup == InitLookup /\ [][NextLookup]_vars

Lookup == "getBranchForPullRequestFromExistingRemotes"

\* the places in the list g of the known remotes whose protocol identity is
\* that of the head clone URL of pr
HeadMatches(g, pr) ==
    {i \in 1..Len(g) :
        /\ g[i].remote.gitProtocol # NONE
        /\ ProtocolEquals(g[i].remote.gitProtocol, pr.head.repositoryCloneUrl)}

\* C9: when some known remote's protocol identity equals the head clone URL,
\* getBranchForPullRequestFromExistingRemotes returns the first such remote of
\* the list with the head ref, whatever associations the config holds.
C9_DirectMatch ==
    Returned(Lookup) =>
        LET g == LastDone.op.githubRepositories
            pr == LastDone.op.pullRequest
            M == HeadMatches(g, pr)
        IN  M # {} =>
                \E i \in M :
                    /\ \A j \in M : i <= j
                    /\ ReturnValue = [remote |-> g[i].remote,
                                      branch |-> pr.head.ref]

\* two known remotes, F before u, are of the head clone URL of #1, branch p is
\* associated with #1 and configured for u: F and the head ref x are returned
C9_Witness ==
    /\ Returned(Lookup)
    /\ LastDone.op.pullRequest.prNumber = 1
    /\ Len(LastDone.op.githubRepositories) = 2
    /\ LastDone.op.githubRepositories[1].remote.remoteName = <<"F">>
    /\ LastDone.op.githubRepositories[2].remote.remoteName = <<"u">>
    /\ ConfigOf(configs, <<"b", "r", "a", "n", "c", "h", ".", "p", ".",
                           "r", "e", "m", "o", "t", "e">>) = <<"u">>
    /\ Associations(configs) # {}
    /\ ReturnValue.remote.remoteName = <<"F">>
    /\ ReturnValue.branch = <<"x">>

\* the branches, of p and q, whose association is the pull request's and whose
\* configured remote is one of the repository's remotes
ReachableBranches(pr) ==
    {b \in {<<"p">>, <<"q">>} :
        /\ ConfigOf(configs, BranchDot \o b \o <<".">> \o PullRequestMetadataKey)
               = buildPullRequestMetadata(pr)
        /\ ConfigOf(configs, BranchDot \o b \o DotRemote) \in RemoteNames}

\* C10 as claimed: when no known remote matches the head clone URL, the
\* function returns a branch associated with the pull request, with its
\* remote, if any such branch has a configured remote that exists, and null
\* only if none has.
C10_EveryBranch ==
    Returned(Lookup) =>
        LET pr == LastDone.op.pullRequest
        IN  HeadMatches(LastDone.op.githubRepositories, pr) = {} =>
                IF ReachableBranches(pr) = {} THEN ReturnValue = NONE
                ELSE /\ ReturnValue # NONE
                     /\ ReturnValue.branch \in ReachableBranches(pr)
                     /\ ReturnValue.remote.remoteName =
                            ConfigOf(configs, BranchDot \o ReturnValue.branch
                                                  \o DotRemote)

(***************************************************************************)
(* createAndCheckout and fetchAndCheckout.                                 *)
(***************************************************************************)
\* branch.<name>.github-pr-owner-number, written out
AssociationKey(name) ==
    <<"b", "r", "a", "n", "c", "h", ".">> \o name
        \o <<".", "g", "i", "t", "h", "u", "b", "-", "p", "r", "-",
             "o", "w", "n", "e", "r", "-", "n", "u", "m", "b", "e", "r">>

\* <baseOwner>#<baseRepoName>#<prNumber> of the two pull requests, written out
EncodedBase(pr) ==
    IF pr.prNumber = 1 THEN <<"o", "#", "r", "#", "1">> ELSE <<"o", "#", "r", "#", "2">>

\* C1 as claimed: a second createAndCheckout of the same pull request, right
\* after a first, leaves the local branches and the association entries of
\* the first, and fetches nothing.
C1_Idempotent ==
    (/\ pc = "idle"
     /\ Len(done) = 2
     /\ \A i \in 1..2 : /\ done[i].op.kind = "createAndCheckout"
                        /\ done[i].status = "ok"
     /\ done[1].op.pullRequest = done[2].op.pullRequest
     /\ done[2].op.before = done[1].after)
    => /\ done[2].after.branchNames = done[1].after.branchNames
       /\ done[2].after.associations = done[1].after.associations
       /\ "fetch" \notin {done[2].calls[i].call : i \in 1..Len(done[2].calls)}

\* C2 as claimed: createAndCheckout with a local branch of the candidate name
\* pr/<authorLogin>/<prNumber> adds no remote, fetches nothing, creates no
\* branch, checks that branch out and writes its association.
C2_ExistingBranch ==
    (/\ Returned("createAndCheckout")
     /\ CandidateOf(LastDone.op.pullRequest) \in LastDone.op.before.branchNames)
    => LET n == CandidateOf(LastDone.op.pullRequest)
       IN  /\ LastDone.after.remotes = LastDone.op.before.remotes
           /\ "fetch" \notin {LastDone.calls[i].call : i \in 1..Len(LastDone.calls)}
           /\ LastDone.after.branchNames = LastDone.op.before.branchNames
           /\ LastDone.after.head = n
           /\ <<AssociationKey(n), EncodedBase(LastDone.op.pullRequest)>>
                  \in LastDone.after.associations

\* what C3 expects of a pull request: the remote's name and URL, the head ref
Expected(pr) ==
    IF pr.prNumber = 1
    THEN [remoteName |-> <<"F">>, owner |-> <<"f">>, headRef |-> <<"x">>]
    ELSE [remoteName |-> <<"o">>, owner |-> <<"o">>, headRef |-> <<"y">>]

\* C3: from a repository with no local branches and no remotes, a
\* createAndCheckout whose engine calls all succeed leaves the branch
\* pr/<authorLogin>/<prNumber> checked out, a remote named after the head
\* clone URL's owner at the normalized head URL with remote.<name>.github-pr-remote
\* = "true", the branch tracking refs/remotes/<remote>/<headRef>, and the
\* association <baseOwner>#<baseRepoName>#<prNumber>; its engine calls are
\* addRemote, setConfig of the marker, fetch <headRef>:<branch>, checkout,
\* setTrackingBranch and setConfig of the association, in this order.
C3_FreshCheckout ==
    (/\ Returned("createAndCheckout")
     /\ LastDone.op.before.branchNames = {}
     /\ LastDone.op.before.remotes = <<>>)
    => LET pr == LastDone.op.pullRequest
           n == CandidateOf(pr)
           e == Expected(pr)
           upstream == <<"r", "e", "f", "s", "/", "r", "e", "m", "o", "t", "e", "s", "/">>
                           \o e.remoteName \o <<"/">> \o e.headRef
           marker == <<"r", "e", "m", "o", "t", "e", ".">> \o e.remoteName
                         \o <<".", "g", "i", "t", "h", "u", "b", "-", "p", "r", "-",
                              "r", "e", "m", "o", "t", "e">>
       IN  /\ DOMAIN branches = {n}
           /\ HEAD = n
           /\ Len(remotes) = 1
           /\ remotes[1].remoteName = e.remoteName
           /\ remotes[1].url = [scheme |-> "https", host |-> <<"h">>,
                                owner |-> e.owner, repositoryName |-> <<"r">>,
                                dotGit |-> FALSE]
           /\ ConfigOf(configs, marker) = <<"t", "r", "u", "e">>
           /\ branches[n].upstream = upstream
           /\ ConfigOf(configs, AssociationKey(n)) = EncodedBase(pr)
           /\ LastDone.calls =
                <<Call("addRemote", <<e.remoteName, remotes[1].url>>),
                  Call("setConfig", <<marker, <<"t", "r", "u", "e">>>>),
                  Call("fetch", <<e.remoteName, e.headRef \o <<":">> \o n>>),
                  Call("checkout", <<n>>),
                  Call("setTrackingBranch", <<n, upstream>>),
                  Call("setConfig", <<AssociationKey(n), EncodedBase(pr)>>)>>

\* createAndCheckout(#1) has ended well in a repository that had no branch
\* and no remote
C3_Witness ==
    /\ Returned("createAndCheckout")
    /\ LastDone.op.before.branchNames = {}
    /\ LastDone.op.before.remotes = <<>>
    /\ LastDone.op.pullRequest.prNumber = 1
    /\ HEAD = <<"p", "r", "/", "a", "/", "1">>
    /\ Len(LastDone.calls) = 6

\* C4: after a successful createAndCheckout or fetchAndCheckout of a pull
\* request, getMatchingPullRequestMetadataForBranch of the branch left checked
\* out is the pull request's base owner, base repository name and prNumber;
\* of a branch with no association entry it is null.
C4_Matching ==
    /\ (Returned("createAndCheckout") \/ Returned("fetchAndCheckout")) =>
         getMatchingPullRequestMetadataForBranch(HEAD)
             = [owner |-> <<"o">>, repositoryName |-> <<"r">>,
                prNumber |-> Num(LastDone.op.pullRequest.prNumber)]
    /\ \A b \in DOMAIN branches :
         (\A i \in 1..Len(configs) : configs[i].key # AssociationKey(b))
             => getMatchingPullRequestMetadataForBranch(b) = NONE

\* createAndCheckout(#2) and then fetchAndCheckout(#2) have ended well, the
\* one leaving pr/a/2 and the other y checked out, and pr/a/1 has no entry
C4_Witness ==
    /\ pc = "idle"
    /\ Len(done) = 2
    /\ done[1].op.kind = "createAndCheckout" /\ done[1].status = "ok"
    /\ done[2].op.kind = "fetchAndCheckout" /\ done[2].status = "ok"
    /\ done[1].after.head = <<"p", "r", "/", "a", "/", "2">>
    /\ HEAD = <<"y">>
    /\ getMatchingPullRequestMetadataForBranch(HEAD).prNumber = Num(2)

(***************************************************************************)
(* getPullRequestMergeBase.  What getMergeBase gives depends on the        *)
(* commits the repository holds, which are not part of this model: each    *)
(* call gives a sha, null or the empty string.                             *)
(***************************************************************************)
\* the results of repository.getMergeBase
MergeBases == {NULL, <<>>, <<"c", "0">>}

\* `refs/pull/${pullRequest.prNumber}/head`
PullRequestHeadRef(pr) ==
    <<"r", "e", "f", "s", "/", "p", "u", "l", "l", "/">>
        \o NumToStr(pr.prNumber) \o <<"/", "h", "e", "a", "d">>

GetPullRequestMergeBase(remote, pr) ==
    Start(Operation("getPullRequestMergeBase", pr, remote, NULL, NONE),
          [NoLocals EXCEPT !.remoteName = remote.remoteName], "getMergeBase")

\* let mergeBase = await getMergeBase(base.sha, head.sha); if (mergeBase) return
GetPullRequestMergeBaseFirst ==
    /\ pc = "getMergeBase"
    /\ UNCHANGED <<repoVars, op, count, codecVars, added>>
    /\ calls' = Append(calls, Call("getMergeBase",
                    <<op.pullRequest.base.sha, op.pullRequest.head.sha>>))
    /\ \E mergeBase \in MergeBases :
         /\ loc' = [loc EXCEPT !.mergeBases = Append(@, mergeBase)]
         /\ IF mergeBase \notin {NULL, <<>>}
            THEN Finish("ok", mergeBase, branches, configs)
            ELSE /\ pc' = "fetchPullRequestHead"
                 /\ UNCHANGED <<result, done, failures>>

\* await repository.fetch(remote.remoteName, `refs/pull/${prNumber}/head`)
GetPullRequestMergeBaseFetchHead ==
    /\ pc = "fetchPullRequestHead"
    /\ UNCHANGED <<repoVars, op, loc, count, codecVars, added>>
    /\ calls' = Append(calls, Call("fetch",
                    <<loc.remoteName, PullRequestHeadRef(op.pullRequest)>>))
    /\ \E ok \in Outcomes(TRUE) :
         IF ok
         THEN /\ pc' = "fetchBase"
              /\ UNCHANGED <<result, done, failures>>
         ELSE Throw

\* await repository.fetch(remote.remoteName, pullRequest.base.ref): the
\* remote-tracking ref of the base ref is set to the fetched commit
GetPullRequestMergeBaseFetchBase ==
    /\ pc = "fetchBase"
    /\ UNCHANGED <<branches, remotes, configs, HEAD, op, loc, count, codecVars, added>>
    /\ calls' = Append(calls, Call("fetch",
                    <<loc.remoteName, op.pullRequest.base.ref>>))
    /\ \E ok \in Outcomes(TRUE) :
         IF ok
         THEN /\ remoteRefs' = Put(remoteRefs,
                      TrackedBranchName(loc.remoteName, op.pullRequest.base.ref),
                      ServerCommit(op.pullRequest.base.ref))
              /\ pc' = "getMergeBaseAgain"
              /\ UNCHANGED <<result, done, failures>>
         ELSE /\ UNCHANGED remoteRefs
              /\ Throw

\* the second getMergeBase with the fetches made again when it gives nothing
GetPullRequestMergeBaseAgain_Retry ==
    /\ pc = "getMergeBaseAgain"
    /\ UNCHANGED <<repoVars, op, count, codecVars, added>>
    /\ calls' = Append(calls, Call("getMergeBase",
                    <<op.pullRequest.base.sha, op.pullRequest.head.sha>>))
    /\ \E mergeBase \in MergeBases :
         /\ loc' = [loc EXCEPT !.mergeBases = Append(@, mergeBase)]
         /\ IF mergeBase \notin {NULL, <<>>}
            THEN Finish("ok", mergeBase, branches, configs)
            ELSE /\ pc' = "fetchPullRequestHead"
                 /\ UNCHANGED <<result, done, failures>>

\* mergeBase = await getMergeBase(base.sha, head.sha); return mergeBase
GetPullRequestMergeBaseAgain ==
    /\ pc = "getMergeBaseAgain"
    /\ UNCHANGED <<repoVars, op, count, codecVars, added>>
    /\ calls' = Append(calls, Call("getMergeBase",
                    <<op.pullRequest.base.sha, op.pullRequest.head.sha>>))
    /\ \E mergeBase \in MergeBases :
         /\ loc' = [loc EXCEPT !.mergeBases = Append(@, mergeBase)]
         /\ Finish("ok", mergeBase, branches, configs)

\* repositories with a remote and no branch
InitMergeBase ==
    /\ branches = <<>>
    /\ remoteRefs = <<>>
    /\ remotes \in InitialRemotes \ {<<>>}
    /\ configs = <<>>
    /\ HEAD = NULL
    /\ Idle
    /\ NoCodec

NextMergeBase ==
    \/ \E pr \in PullRequests : \E i \in 1..Len(remotes) :
           GetPullRequestMergeBase(remotes[i], pr)
    \/ GetPullRequestMergeBaseFirst
    \/ GetPullRequestMergeBaseFetchHead
    \/ GetPullRequestMergeBaseFetchBase
    \/ GetPullRequestMergeBaseAgain

SpecMergeBase == InitMergeBase /\ [][NextMergeBase]_vars

\* how many of the calls cs are calls of name
CountCalls(cs, name) == Cardinality({i \in 1..Len(cs) : cs[i].call = name})

\* the sha of the tip of a ref, and the refs of the two pull requests
ShaOf(ref) == <<"c">> \o ref

\* C11: getPullRequestMergeBase returns what the first getMergeBase(baseSha,
\* headSha) gives, without a fetch, when that is a sha; when it is null or
\* empty it fetches refs/pull/<prNumber>/head and then the base ref from the
\* given remote, calls getMergeBase once more and returns what this gives,
\* null too.  No run calls getMergeBase or fetch more than twice.
C11_MergeBase ==
    /\ op.kind = "getPullRequestMergeBase" =>
         /\ CountCalls(calls, "getMergeBase") <= 2
         /\ CountCalls(calls, "fetch") <= 2
    /\ Returned("getPullRequestMergeBase") =>
         LET pr == LastDone.op.pullRequest
             remoteName == LastDone.op.remote.remoteName
             shas == <<ShaOf(<<"m">>),
                       ShaOf(IF pr.prNumber = 1 THEN <<"x">> ELSE <<"y">>)>>
             pull == <<"r", "e", "f", "s", "/", "p", "u", "l", "l", "/">>
                         \o (IF pr.prNumber = 1 THEN <<"1">> ELSE <<"2">>)
                         \o <<"/", "h", "e", "a", "d">>
         IN  IF loc.mergeBases[1] = <<"c", "0">>
             THEN /\ ReturnValue = <<"c", "0">>
                  /\ LastDone.calls = <<Call("getMergeBase", shas)>>
             ELSE /\ Len(loc.mergeBases) = 2
                  /\ ReturnValue = loc.mergeBases[2]
                  /\ LastDone.calls =
                       <<Call("getMergeBase", shas),
                         Call("fetch", <<remoteName, pull>>),
                         Call("fetch", <<remoteName, <<"m">>>>),
                         Call("getMergeBase", shas)>>

\* getPullRequestMergeBase has returned null after its two fetches
C11_Witness ==
    /\ Returned("getPullRequestMergeBase")
    /\ Len(LastDone.calls) = 4
    /\ loc.mergeBases = <<NULL, NULL>>
    /\ ReturnValue = NULL

(***************************************************************************)
(* createRemote, called on its own and by createAndCheckout.               *)
(***************************************************************************)
\* isRemoteCreatedForPullRequest
isRemoteCreatedForPullRequest(remoteName) ==
    getConfig(RemoteMetadataKeyOf(remoteName)) = True

\* the clone URLs given to createRemote: the fork in two spellings, the base
\* repository and another repository of an owner of the fork's name
CloneUrls ==
    {Protocol(ForkUrl), Protocol(ForkSshUrl), Protocol(BaseUrl),
     Protocol(OtherUrl)}

\* repositories with no branch, with the remotes a user has made
InitRemote ==
    /\ branches = <<>>
    /\ remoteRefs = <<>>
    /\ remotes \in InitialRemotes
    /\ configs = <<>>
    /\ HEAD = NULL
    /\ Idle
    /\ NoCodec

NextRemote ==
    \/ \E cloneUrl \in CloneUrls : CreateRemote(cloneUrl)
    \/ \E pr \in PullRequests : CreateAndCheckout(pr)
    \/ GetBranchNameLoop
    \/ CreateAndCheckoutGetBranch
    \/ CreateRemoteAdd
    \/ CreateRemoteSetConfig
    \/ CreateAndCheckoutFetch
    \/ CreateAndCheckoutCheckout
    \/ CreateAndCheckoutSetTrackingBranch
    \/ CreateAndCheckoutSetConfig

SpecRemote == InitRemote /\ [][NextRemote]_vars

\* the places in the list rs of the remotes whose URL is url under the
\* equality of Protocol
SameUrl(rs, url) ==
    {i \in 1..Len(rs) : ProtocolEquals(Protocol(rs[i].url), url)}

\* name, or name followed by the least k >= 1, that no remote of rs has
LeastUnused(rs, name) ==
    LET N == {rs[i].remoteName : i \in 1..Len(rs)}
        k == CHOOSE j \in 1..(Len(rs) + 1) :
                 /\ WithSuffix(name, <<>>, j) \notin N
                 /\ \A i \in 1..(j - 1) : WithSuffix(name, <<>>, i) \in N
    IN  IF name \notin N THEN name ELSE WithSuffix(name, <<>>, k)

\* C12: createRemote returns the name of the first remote whose URL equals
\* the clone URL under Protocol equality, and changes nothing; without such a
\* remote it adds one named getUniqueRemoteName(cloneUrl.owner) at the
\* normalized URL, then sets remote.<name>.github-pr-remote = "true", and
\* returns the new name.
C12_CreateRemote ==
    Returned("createRemote") =>
        LET before == LastDone.op.before
            url == LastDone.op.cloneUrl
            M == SameUrl(before.remotes, url)
            name == LeastUnused(before.remotes, url.owner)
            marker == <<"r", "e", "m", "o", "t", "e", ".">> \o name
                          \o <<".", "g", "i", "t", "h", "u", "b", "-", "p", "r",
                               "-", "r", "e", "m", "o", "t", "e">>
            true == <<"t", "r", "u", "e">>
        IN  IF M # {}
            THEN /\ \E i \in M : /\ \A j \in M : i <= j
                                /\ ReturnValue = before.remotes[i].remoteName
                 /\ LastDone.calls = <<>>
                 /\ remotes = before.remotes
                 /\ configs = before.configs
            ELSE /\ ReturnValue = name
                 /\ Len(remotes) = Len(before.remotes) + 1
                 /\ SubSeq(remotes, 1, Len(before.remotes)) = before.remotes
                 /\ remotes[Len(remotes)].remoteName = name
                 /\ remotes[Len(remotes)].url = normalizeUri(url)
                 /\ configs = Append(before.configs, Entry(marker, true))
                 /\ LastDone.calls =
                        <<Call("addRemote", <<name, normalizeUri(url)>>),
                          Call("setConfig", <<marker, true>>)>>

\* createRemote of the fork has added F1 where F was a remote of another URL,
\* and a second createRemote, of the fork's ssh URL, has returned F1
C12_Witness ==
    /\ Returned("createRemote")
    /\ Len(done) = 2
    /\ done[1].op.kind = "createRemote"
    /\ done[1].value = <<<<"F", "1">>>>
    /\ Len(done[1].calls) = 2
    /\ done[2].op.cloneUrl = Protocol(ForkSshUrl)
    /\ done[2].value = <<<<"F", "1">>>>
    /\ done[2].calls = <<>>

\* the keys of the association entries of a config
AssociationKeys(cfgs) == {a[1] : a \in Associations(cfgs)}

\* a step adds at most one remote, of a URL that no remote had, and removes
\* no remote and no association entry
AddsOnlyNewUrls ==
    /\ \/ remotes' = remotes
       \/ /\ Len(remotes') = Len(remotes) + 1
          /\ SubSeq(remotes', 1, Len(remotes)) = remotes
          /\ SameUrl(remotes, Protocol(remotes'[Len(remotes')].url)) = {}
    /\ AssociationKeys(configs) \subseteq AssociationKeys(configs')

\* a remote that was added has the URL of no other remote
AddedOncePerUrl ==
    \A i, j \in 1..Len(remotes) :
        (/\ i # j
         /\ remotes[i].remoteName \in added)
        => ~ProtocolEquals(Protocol(remotes[i].url), Protocol(remotes[j].url))

\* a call for a clone URL that a remote had returns that remote, and adds none
ReusesRemote ==
    (/\ pc = "idle"
     /\ done # <<>>
     /\ LastDone.op.kind \in {"createRemote", "createAndCheckout"}
     /\ LastDone.status = "ok")
    => LET before == LastDone.op.before
           url == IF LastDone.op.kind = "createRemote" THEN LastDone.op.cloneUrl
                  ELSE LastDone.op.pullRequest.head.repositoryCloneUrl
           M == SameUrl(before.remotes, url)
       IN  M # {} =>
               /\ LastDone.after.remotes = before.remotes
               /\ loc.remoteName \in {before.remotes[i].remoteName : i \in M}
               /\ LastDone.op.kind = "createRemote" =>
                      ReturnValue = loc.remoteName

\* C18: over any sequence of createRemote and createAndCheckout calls at most
\* one remote is added per clone URL: a call for a clone URL that a remote
\* has returns that remote's name and adds nothing, and no call removes a
\* remote or an association entry.
C18_OneRemotePerUrl ==
    /\ [](AddedOncePerUrl /\ ReusesRemote)
    /\ [][AddsOnlyNewUrls]_vars

\* createAndCheckout of the fork's pull request has added the remote F, and
\* createRemote of the fork's ssh URL has then returned F and added nothing
C18_Witness ==
    /\ pc = "idle"
    /\ Len(done) = 2
    /\ done[1].op.kind = "createAndCheckout" /\ done[1].status = "ok"
    /\ done[1].op.before.remotes = <<>>
    /\ done[2].op.kind = "createRemote" /\ done[2].status = "ok"
    /\ done[2].op.cloneUrl = Protocol(ForkSshUrl)
    /\ done[2].value = <<<<"F">>>>
    /\ added = {<<"F">>}
    /\ Len(remotes) = 1

\* C19 as claimed: after any sequence of operations, failed ones too,
\* isRemoteCreatedForPullRequest is true of exactly the remotes that
\* createRemote has added.
C19_MarkedIffAdded ==
    pc = "idle" =>
        \A i \in 1..Len(remotes) :
            isRemoteCreatedForPullRequest(remotes[i].remoteName)
                <=> remotes[i].remoteName \in added

(***************************************************************************)
(* Failures of the engine calls of createAndCheckout.                      *)
(***************************************************************************)
\* the names of the engine calls cs, in their order
CallNames(cs) == [i \in 1..Len(cs) |-> cs[i].call]

\* C13 as claimed: a createAndCheckout that failed after its fetch had made
\* the local branch, called again for the same pull request with every engine
\* call succeeding, completes on that branch: the branch is checked out and
\* gets the association, no other branch is made and nothing is fetched.
C13_Reentry ==
    (/\ pc = "idle"
     /\ Len(done) = 2
     /\ \A i \in 1..2 : done[i].op.kind = "createAndCheckout"
     /\ done[1].op.pullRequest = done[2].op.pullRequest
     /\ done[1].status = "failed"
     /\ done[1].after.branchNames # done[1].op.before.branchNames
     /\ done[2].op.before = done[1].after
     /\ done[2].status = "ok")
    => LET made == done[1].after.branchNames \ done[1].op.before.branchNames
       IN  /\ done[2].after.branchNames = done[1].after.branchNames
           /\ "fetch" \notin {done[2].calls[i].call : i \in 1..Len(done[2].calls)}
           /\ done[2].after.head \in made
           /\ <<AssociationKey(done[2].after.head),
                EncodedBase(done[2].op.pullRequest)>>
                  \in done[2].after.associations

\* the engine calls of a createAndCheckout that adds a remote, and of one that
\* finds a remote of the head clone URL
StepsOf(d) ==
    IF SameUrl(d.op.before.remotes, d.op.pullRequest.head.repositoryCloneUrl) = {}
    THEN <<"addRemote", "setConfig", "fetch", "checkout", "setTrackingBranch",
           "setConfig">>
    ELSE <<"fetch", "checkout", "setTrackingBranch", "setConfig">>

\* C14: a createAndCheckout in which an engine call fails ends with that
\* error: the failed call is its last, the association is not written, and
\* what the calls before it did stays: the remote added and marked, the branch
\* fetched, checked out and tracking.
C14_FailureEnds ==
    (/\ pc = "idle"
     /\ done # <<>>
     /\ LastDone.op.kind = "createAndCheckout"
     /\ LastDone.status = "failed")
    => LET d == LastDone
           before == d.op.before
           k == Len(d.calls)
           completed == {CallNames(d.calls)[i] : i \in 1..(k - 1)}
           made == d.after.branchNames \ before.branchNames
       IN  /\ k >= 1
           /\ k <= Len(StepsOf(d))
           /\ CallNames(d.calls) = SubSeq(StepsOf(d), 1, k)
           /\ result.status = "failed"
           /\ d.after.associations = before.associations
           /\ IF "addRemote" \in completed
              THEN /\ Len(d.after.remotes) = Len(before.remotes) + 1
                   /\ SubSeq(d.after.remotes, 1, Len(before.remotes))
                          = before.remotes
              ELSE d.after.remotes = before.remotes
           /\ "setConfig" \in completed =>
                  isRemoteCreatedForPullRequest(
                      d.after.remotes[Len(d.after.remotes)].remoteName)
           /\ IF "fetch" \in completed
              THEN /\ Cardinality(made) = 1
                   /\ before.branchNames \subseteq d.after.branchNames
              ELSE d.after.branchNames = before.branchNames
           /\ IF "checkout" \in completed
              THEN d.after.head \in made
              ELSE d.after.head = before.head
           /\ "setTrackingBranch" \in completed =>
                  \A b \in made : d.after.upstreams[b] # NULL

\* a createAndCheckout has failed in its last call, the setConfig of the
\* association, after the remote was added and the branch checked out
C14_Witness ==
    /\ pc = "idle"
    /\ done # <<>>
    /\ LastDone.op.kind = "createAndCheckout"
    /\ LastDone.status = "failed"
    /\ Len(LastDone.calls) = 6
    /\ HEAD = <<"p", "r", "/", "a", "/", "1">>
    /\ Len(remotes) = 1
    /\ Associations(configs) = {}

(***************************************************************************)
(* fetchAndCheckout.                                                       *)
(***************************************************************************)
\* refs/remotes/<remote>/<branchName> of a fetchAndCheckout d
TrackedRef(d) ==
    <<"r", "e", "f", "s", "/", "r", "e", "m", "o", "t", "e", "s", "/">>
        \o d.op.remote.remoteName \o <<"/">> \o d.op.branchName

\* a fetchAndCheckout has ended, in whatever way
Fetched ==
    /\ pc = "idle"
    /\ done # <<>>
    /\ LastDone.op.kind = "fetchAndCheckout"

\* C15: a fetchAndCheckout of a branch that is no local branch, with no
\* remote-tracking ref refs/remotes/<remote>/<branchName> after the fetch, ends
\* with an error and changes nothing after the fetch; with that ref, the branch
\* is created at the ref's commit and set to track it before the checkout.
C15_CreateOrFail ==
    (Fetched /\ LastDone.op.branchName \notin LastDone.op.before.branchNames)
    => LET d == LastDone
           b == d.op.branchName
       IN  /\ d.status = "error" => TrackedRef(d) \notin DOMAIN remoteRefs
           /\ TrackedRef(d) \notin DOMAIN remoteRefs =>
                /\ d.status \in {"error", "failed"}
                /\ d.calls = <<Call("fetch", <<d.op.remote.remoteName>>)>>
                /\ d.after.branchNames = d.op.before.branchNames
                /\ d.after.head = d.op.before.head
                /\ d.after.configs = d.op.before.configs
           /\ (TrackedRef(d) \in DOMAIN remoteRefs /\ Len(d.calls) >= 4) =>
                /\ d.calls[2] = Call("createBranch",
                                     <<b, remoteRefs[TrackedRef(d)]>>)
                /\ d.calls[3] = Call("setTrackingBranch", <<b, TrackedRef(d)>>)
                /\ d.calls[4] = Call("checkout", <<b>>)
                /\ branches[b].commit = remoteRefs[TrackedRef(d)]
                /\ branches[b].upstream = TrackedRef(d)

\* fetchAndCheckout(u, x) has ended with the error of fetchAndCreateBranch
C15_Witness ==
    /\ Fetched
    /\ LastDone.status = "error"
    /\ LastDone.op.branchName = <<"x">>
    /\ LastDone.op.remote.remoteName = <<"u">>
    /\ Len(LastDone.calls) = 1
    /\ <<"x">> \notin DOMAIN branches

\* C16 as claimed: fetchAndCheckout pulls exactly when, at that step, the
\* branch checked out is behind its upstream and not ahead of it; it pulls
\* at most once, after the checkout and before the association is written.
C16_PullWhenBehind ==
    (Fetched /\ LastDone.status = "ok")
    => LET names == CallNames(LastDone.calls)
           ran == {i \in 1..Len(names) : names[i] = "run"}
       IN  /\ Cardinality(ran) <= 1
           /\ \A i \in ran :
                /\ \E j \in 1..(i - 1) : names[j] = "checkout"
                /\ \E j \in (i + 1)..Len(names) : names[j] = "setConfig"
                /\ loc.branch.behind.val > 0
                /\ branches[HEAD].ahead = Num(0)
           /\ ran = {} =>
                ~(/\ branches[HEAD].behind # UNDEFINED
                  /\ branches[HEAD].behind.val > 0
                  /\ branches[HEAD].ahead = Num(0))

\* C17: after a successful fetchAndCheckout(repository, remote, branchName, p)
\* branchName is checked out, has the upstream it had, or
\* refs/remotes/<remote>/<branchName> if it had none, and
\* branch.<branchName>.github-pr-owner-number is p's encoded base metadata.
C17_Upstream ==
    (Fetched /\ LastDone.status = "ok")
    => LET d == LastDone
           b == d.op.branchName
           had == IF b \in d.op.before.branchNames
                  THEN d.op.before.upstreams[b] ELSE NULL
       IN  /\ HEAD = b
           /\ branches[b].upstream # NULL
           /\ branches[b].upstream = IF had # NULL THEN had ELSE TrackedRef(d)
           /\ ConfigOf(configs, AssociationKey(b)) = EncodedBase(d.op.pullRequest)

\* fetchAndCheckout(origin, y) has set the upstream of y, a branch made by hand
C17_Witness ==
    /\ Fetched
    /\ LastDone.status = "ok"
    /\ LastDone.op.branchName = <<"y">>
    /\ <<"y">> \in LastDone.op.before.branchNames
    /\ LastDone.op.before.upstreams[<<"y">>] = NULL
    /\ "setTrackingBranch" \in {LastDone.calls[i].call : i \in 1..Len(LastDone.calls)}
    /\ branches[<<"y">>].upstream # NULL

(***************************************************************************)
(* createAndCheckout followed by the lookup.                               *)
(***************************************************************************)
\* a repository in which a branch was checked out for the fork's pull request
\* and the remote of the fork was removed since: git has dropped
\* branch.<name>.remote with the remote and has kept the association
InitAssociated ==
    /\ \E S \in {{}, {BranchNameOf(ForkPullRequest)}} :
           branches = ManualBranches(S)
    /\ remoteRefs = <<>>
    /\ remotes \in {<<>>, <<OriginRemote>>}
    /\ configs = <<Entry(MetadataKeyOf(BranchNameOf(ForkPullRequest)),
                        buildPullRequestMetadata(ForkPullRequest))>>
    /\ HEAD = NULL
    /\ Idle
    /\ NoCodec

SpecAssociated == InitAssociated /\ [][NextRemote]_vars

\* the lists of known remotes a caller may hold when createAndCheckout d
\* began with no remote of the head's clone URL
KnownBefore(d) == {<<>>, GitHubRepositories(d.op.before.remotes)}

\* C20: after a successful createAndCheckout of a pull request p whose head
\* clone URL no known remote has, getBranchForPullRequestFromExistingRemotes
\* for p returns, not null, the remote that createAndCheckout used and a
\* local branch whose association is p's encoded base metadata.
C20_FoundAfterCheckout ==
    (/\ Returned("createAndCheckout")
     /\ SameUrl(LastDone.op.before.remotes,
                LastDone.op.pullRequest.head.repositoryCloneUrl) = {})
    => LET pr == LastDone.op.pullRequest
           used == SameUrl(remotes, pr.head.repositoryCloneUrl)
       IN  /\ used # {}
           /\ \A g \in KnownBefore(LastDone) :
                LET found == getBranchForPullRequestFromExistingRemotes(g, pr)
                IN  /\ found # NONE
                    /\ found.remote = remotes[Min(used)]
                    /\ found.remote.remoteName = loc.remoteName
                    /\ found.branch \in DOMAIN branches
                    /\ ConfigOf(configs, AssociationKey(found.branch))
                           = EncodedBase(pr)

=============================================================================
